---- MODULE Spec2Model ----
(***************************************************************************)
(* State-machine model of src/training.py: generalised advantage           *)
(* estimation, the PPO update, the behavioural cloning update and the      *)
(* adversarial imitation update.                                           *)
(*                                                                         *)
(* Arithmetic is exact: a number is a normalised fraction <<n, d>> with    *)
(* d > 0.  Non-finite floating point values and rounding are not modelled. *)
(***************************************************************************)
EXTENDS Integers, Sequences, FiniteSets, TLC

\* ------------------------------------------------------------------ bounds
MaxLen == 3          \* longest trajectory given to compute_advantages
MaxReward == 1       \* rewards range over -1..MaxReward
MaxBatch == 2        \* most records in the batch given to ppo_update
MaxEpochs == 2       \* ppo_update calls per update cycle
MaxGradNorm == 2     \* gradient norms after backward range over 0..MaxGradNorm
MaxItems == 3        \* most transitions in a dataset with every shuffle order
MaxBatchSize == 2    \* batch sizes range over 1..MaxBatchSize

\* ------------------------------------------------------- exact arithmetic
Abs(n) == IF n < 0 THEN -n ELSE n

RECURSIVE GCD(_, _)
GCD(a, b) == IF b = 0 THEN a ELSE GCD(b, a % b)

Norm(n, d) == LET g == GCD(Abs(n), d) IN <<n \div g, d \div g>>

RInt(n) == <<n, 1>>
RAdd(x, y) == Norm(x[1] * y[2] + y[1] * x[2], x[2] * y[2])
RSub(x, y) == Norm(x[1] * y[2] - y[1] * x[2], x[2] * y[2])
RMul(x, y) == Norm(x[1] * y[1], x[2] * y[2])

RECURSIVE RPow(_, _)
RPow(x, k) == IF k = 0 THEN RInt(1) ELSE RMul(x, RPow(x, k - 1))

Min(a, b) == IF a <= b THEN a ELSE b

\* A dictionary key that has not been assigned yet.
Absent == <<0, 0>>

VARIABLES
  \* compute_advantages
  trajectories,   \* the list of transition records, in time order
  discount, trace_decay,
  reward_to_go, advantage, next_value,   \* the three carried scalars
  gae_i,          \* index of the record the reversed loop visits next
  gae_pc

gaeVars == <<trajectories, discount, trace_decay, reward_to_go, advantage,
             next_value, gae_i, gae_pc>>

VARIABLES
  \* ppo_update
  batch,          \* the trajectories dictionary of parallel field arrays
  rollout,        \* the batch as it was captured at collection time
  params,         \* agent parameters: the gradient steps applied so far
  grad_norm,      \* global norm of the accumulated gradients, or Absent
  epoch,          \* the epoch argument of the current / next call
  loss_inputs,    \* the field arrays read by lines 40-43 of the current call
  ppo_events,     \* optimiser events of the current / last call, in order
  ppo_pc

ppoVars == <<batch, rollout, params, grad_norm, epoch, loss_inputs,
             ppo_events, ppo_pc>>

VARIABLES
  \* behavioural_cloning_update
  bc_size,        \* timesteps stored in the expert TransitionDataset
  bc_batch_size,
  bc_order,       \* the order in which the shuffling loader visits the items
  bc_pos,         \* items of bc_order the loader has handed out
  bc_batch,       \* the mini-batch of the current iteration
  bc_log,         \* optimiser events of the call, each with its mini-batch
  bc_pc

bcVars == <<bc_size, bc_batch_size, bc_order, bc_pos, bc_batch, bc_log, bc_pc>>

VARIABLES
  \* adversarial_imitation_update
  algorithm,
  expert_size, policy_size,     \* timesteps stored in the two datasets
  ail_batch_size,
  expert_order, policy_order,   \* the orders of the two shuffling loaders
  expert_pos, policy_pos,
  expert_transition, policy_transition,   \* the current pair of mini-batches
  D_expert, D_policy,           \* arguments of the discriminator calls
  ail_pairs,                    \* the pairs of mini-batches the loop has taken
  ail_events,                   \* discriminator optimiser events of the call
  ail_pc

ailVars == <<algorithm, expert_size, policy_size, ail_batch_size, expert_order,
             policy_order, expert_pos, policy_pos, expert_transition,
             policy_transition, D_expert, D_policy, ail_pairs, ail_events,
             ail_pc>>

vars == <<gaeVars, ppoVars, bcVars, ailVars>>

\* A local name that has not been bound.
Unbound == <<>>

IdleAIL ==
  /\ algorithm = "GAIL"
  /\ expert_size = 1
  /\ policy_size = 1
  /\ ail_batch_size = 1
  /\ expert_order = <<>>
  /\ policy_order = <<>>
  /\ expert_pos = 0
  /\ policy_pos = 0
  /\ expert_transition = <<>>
  /\ policy_transition = <<>>
  /\ D_expert = Unbound
  /\ D_policy = Unbound
  /\ ail_pairs = <<>>
  /\ ail_events = <<>>
  /\ ail_pc = "idle"

IdleBC ==
  /\ bc_size = 1
  /\ bc_batch_size = 1
  /\ bc_order = <<>>
  /\ bc_pos = 0
  /\ bc_batch = <<>>
  /\ bc_log = <<>>
  /\ bc_pc = "idle"

IdleGAE ==
  /\ trajectories = <<>>
  /\ discount = RInt(0)
  /\ trace_decay = RInt(0)
  /\ reward_to_go = RInt(0)
  /\ advantage = RInt(0)
  /\ next_value = RInt(0)
  /\ gae_i = 0
  /\ gae_pc = "idle"

IdlePPO ==
  /\ batch = <<>>
  /\ rollout = <<>>
  /\ params = <<>>
  /\ grad_norm = Absent
  /\ epoch = 0
  /\ loss_inputs = <<>>
  /\ ppo_events = <<>>
  /\ ppo_pc = "idle"

\* ===================================================== compute_advantages
Discounts == {RInt(0), <<9, 10>>, RInt(1)}
TraceDecays == {RInt(0), <<1, 2>>, RInt(1)}
Values == {RInt(0), RInt(1)}

Transitions ==
  [rewards : {RInt(r) : r \in -1..MaxReward},
   terminals : {RInt(0), RInt(1)},
   values : Values,
   rewards_to_go : {Absent},
   advantages : {Absent}]

\* line 25
RewardToGoUnmasked(transition, disc, rtg) ==
  RAdd(transition.rewards, RMul(disc, rtg))

RewardToGoUndiscounted(transition, disc, rtg) ==
  RAdd(transition.rewards, RMul(RSub(RInt(1), transition.terminals), rtg))

RewardToGo(transition, disc, rtg) ==
  RAdd(transition.rewards,
       RMul(RSub(RInt(1), transition.terminals), RMul(disc, rtg)))

\* line 27
TdErrorNoBootstrap(transition, disc, nv) ==
  RSub(transition.rewards, transition.values)

TdError(transition, disc, nv) ==
  RSub(RAdd(transition.rewards,
            RMul(RMul(RSub(RInt(1), transition.terminals), disc), nv)),
       transition.values)

\* line 28
AdvantageNoDecay(transition, disc, lam, td, adv) ==
  RAdd(td, RMul(RMul(RSub(RInt(1), transition.terminals), disc), adv))

Advantage(transition, disc, lam, td, adv) ==
  RAdd(td,
       RMul(RMul(RMul(RSub(RInt(1), transition.terminals), disc), lam), adv))

InitGAE ==
  /\ \E T \in 1..MaxLen : trajectories \in [1..T -> Transitions]
  /\ discount \in Discounts
  /\ trace_decay \in TraceDecays
  /\ reward_to_go = RInt(0)
  /\ advantage = RInt(0)
  /\ next_value = RInt(0)
  /\ gae_i = Len(trajectories)
  /\ gae_pc = "loop"
  /\ IdlePPO
  /\ IdleBC
  /\ IdleAIL

\* One iteration of `for transition in reversed(trajectories)`.
ComputeAdvantagesStep ==
  /\ gae_pc = "loop"
  /\ gae_i >= 1
  /\ LET transition == trajectories[gae_i]
         rtg == RewardToGo(transition, discount, reward_to_go)
         td_error == TdError(transition, discount, next_value)
         adv == Advantage(transition, discount, trace_decay, td_error, advantage)
     IN /\ reward_to_go' = rtg
        /\ advantage' = adv
        /\ trajectories' = [trajectories EXCEPT ![gae_i] =
                              [@ EXCEPT !.rewards_to_go = rtg, !.advantages = adv]]
        /\ next_value' = transition.values
  /\ gae_i' = gae_i - 1
  /\ UNCHANGED <<discount, trace_decay, gae_pc>>
  /\ UNCHANGED <<ppoVars, bcVars, ailVars>>

\* The reversed iterator is exhausted.
ComputeAdvantagesReturn ==
  /\ gae_pc = "loop"
  /\ gae_i = 0
  /\ gae_pc' = "done"
  /\ UNCHANGED <<trajectories, discount, trace_decay, reward_to_go, advantage,
                 next_value, gae_i>>
  /\ UNCHANGED <<ppoVars, bcVars, ailVars>>

NextGAE == ComputeAdvantagesStep \/ ComputeAdvantagesReturn

SpecGAE == InitGAE /\ [][NextGAE]_vars

\* The records the reversed loop has already written to.
Stored(t) == t \in (gae_i + 1)..Len(trajectories)

\* C1: every stored record whose terminal flag is 1 has reward_to_go equal to
\* its reward and advantage equal to reward minus value, whatever the records
\* after it hold.
C1_TerminalMasking ==
  \A t \in 1..Len(trajectories) :
    (Stored(t) /\ trajectories[t].terminals = RInt(1))
      => /\ trajectories[t].rewards_to_go = trajectories[t].rewards
         /\ trajectories[t].advantages =
              RSub(trajectories[t].rewards, trajectories[t].values)

\* A finished two-episode trajectory whose second episode has a non-zero
\* reward and a non-zero value, under a non-zero discount and trace decay.
C1_Witness ==
  /\ gae_pc = "done"
  /\ discount # RInt(0)
  /\ trace_decay # RInt(0)
  /\ \E t \in 1..Len(trajectories) :
       /\ trajectories[t].terminals = RInt(1)
       /\ \E u \in (t + 1)..Len(trajectories) :
            /\ trajectories[u].rewards # RInt(0)
            /\ trajectories[u].values # RInt(0)

RECURSIVE DiscountedSum(_, _)
DiscountedSum(t, k) ==
  IF k > Len(trajectories) THEN RInt(0)
  ELSE RAdd(RMul(RPow(discount, k - t), trajectories[k].rewards),
            DiscountedSum(t, k + 1))

ZeroValuesTerminalLast ==
  /\ \A t \in 1..Len(trajectories) :
       /\ trajectories[t].values = RInt(0)
       /\ trajectories[t].terminals =
            (IF t = Len(trajectories) THEN RInt(1) ELSE RInt(0))

LiteralScenario ==
  /\ Len(trajectories) = 3
  /\ ZeroValuesTerminalLast
  /\ \A t \in 1..3 : trajectories[t].rewards = RInt(1)
  /\ discount = <<9, 10>>
  /\ trace_decay = RInt(1)

\* C2: with all-zero values and the only terminal step last, every stored
\* reward_to_go[t] is the discounted sum of the rewards from t to the end; the
\* literal scenario stores [2.71, 1.9, 1.0].
C2_DiscountedRewardToGo ==
  /\ ZeroValuesTerminalLast =>
       \A t \in 1..Len(trajectories) :
         Stored(t) => trajectories[t].rewards_to_go = DiscountedSum(t, t)
  /\ (LiteralScenario /\ gae_pc = "done") =>
       /\ trajectories[1].rewards_to_go = <<271, 100>>
       /\ trajectories[2].rewards_to_go = <<19, 10>>
       /\ trajectories[3].rewards_to_go = <<1, 1>>

C2_Witness == LiteralScenario /\ gae_pc = "done"

\* The value of the record after t, 0 after the last record.
ValueAfter(t) ==
  IF t = Len(trajectories) THEN RInt(0) ELSE trajectories[t + 1].values

\* C3: with trace_decay = 0 every stored advantage is the one-step TD error
\* reward[t] + (1 - terminal[t]) * discount * value[t+1] - value[t].
C3_LambdaZeroIsTdError ==
  trace_decay = RInt(0) =>
    \A t \in 1..Len(trajectories) :
      Stored(t) =>
        trajectories[t].advantages =
          RSub(RAdd(trajectories[t].rewards,
                    RMul(RSub(RInt(1), trajectories[t].terminals),
                         RMul(discount, ValueAfter(t)))),
               trajectories[t].values)

\* A finished run with trace_decay = 0 in which a later advantage is non-zero
\* and the discount is non-zero, so the trace term would matter.
C3_Witness ==
  /\ gae_pc = "done"
  /\ trace_decay = RInt(0)
  /\ discount # RInt(0)
  /\ Len(trajectories) >= 2
  /\ trajectories[1].terminals = RInt(0)
  /\ trajectories[2].advantages # RInt(0)
  /\ trajectories[2].values # RInt(0)

SingleTerminal ==
  Cardinality({t \in 1..Len(trajectories) :
                 trajectories[t].terminals = RInt(1)}) = 1

\* C4: with discount = 1 and trace_decay = 1 and a single terminal step, every
\* stored advantage equals the stored reward_to_go minus the value.
C4_MonteCarloAdvantage ==
  (discount = RInt(1) /\ trace_decay = RInt(1) /\ SingleTerminal) =>
    \A t \in 1..Len(trajectories) :
      Stored(t) =>
        trajectories[t].advantages =
          RSub(trajectories[t].rewards_to_go, trajectories[t].values)

\* A finished three-step run with its single terminal last and non-zero later
\* values.
C4_Witness ==
  /\ gae_pc = "done"
  /\ discount = RInt(1)
  /\ trace_decay = RInt(1)
  /\ SingleTerminal
  /\ Len(trajectories) = 3
  /\ trajectories[3].terminals = RInt(1)
  /\ trajectories[2].values # RInt(0)
  /\ trajectories[3].values # RInt(0)


\* ============================================================= ppo_update
\* The forward pass of the agent network under the given parameters (an
\* external collaborator): deterministic in the parameters and the state.
AgentValues(theta, states) ==
  [i \in 1..Len(states) |-> states[i] + Len(theta)]

AgentLogProbActions(theta, states, actions) ==
  [i \in 1..Len(states) |-> 0 - (states[i] + actions[i] + Len(theta))]

AgentEntropies(theta, states) ==
  [i \in 1..Len(states) |-> Len(theta) + 1]

\* line 36
RecalculateAlways(e) == e >= 0

Recalculate(e) == e > 0

\* line 47: clip_grad_norm_(agent.parameters(), 1)
ClipGradNormOff(norm, max_norm) == norm

ClipGradNorm(norm, max_norm) == Min(norm, max_norm)

\* line 48: the optimiser consumes the accumulated gradients.
OptimiserStep(theta, norm) == Append(theta, norm)

Records ==
  [states : 0..1, actions : {0}, values : 0..1, log_prob_actions : -1..0,
   entropies : {1}, advantages : {-1, 1}, rewards_to_go : {1}]

\* The structure of arrays built from a list of collected records;
\* old_log_prob_actions is the frozen copy of log_prob_actions.
Collect(recs) ==
  [states |-> [i \in 1..Len(recs) |-> recs[i].states],
   actions |-> [i \in 1..Len(recs) |-> recs[i].actions],
   values |-> [i \in 1..Len(recs) |-> recs[i].values],
   log_prob_actions |-> [i \in 1..Len(recs) |-> recs[i].log_prob_actions],
   old_log_prob_actions |-> [i \in 1..Len(recs) |-> recs[i].log_prob_actions],
   entropies |-> [i \in 1..Len(recs) |-> recs[i].entropies],
   advantages |-> [i \in 1..Len(recs) |-> recs[i].advantages],
   rewards_to_go |-> [i \in 1..Len(recs) |-> recs[i].rewards_to_go]]

InitPPO ==
  /\ \E B \in 1..MaxBatch : \E recs \in [1..B -> Records] :
       /\ batch = Collect(recs)
       /\ rollout = Collect(recs)
  /\ params = <<>>
  /\ grad_norm = Absent
  /\ epoch = 0
  /\ loss_inputs = <<>>
  /\ ppo_events = <<>>
  /\ ppo_pc = "idle"
  /\ IdleGAE
  /\ IdleBC
  /\ IdleAIL

\* Lines 36-38: entry of ppo_update(..., epoch) and the recalculation of the
\* agent's outputs for epochs after the first.
PpoRecalculate ==
  /\ ppo_pc = "idle"
  /\ epoch < MaxEpochs
  /\ batch' = IF Recalculate(epoch)
              THEN [batch EXCEPT
                      !.values = AgentValues(params, batch.states),
                      !.log_prob_actions =
                         AgentLogProbActions(params, batch.states, batch.actions),
                      !.entropies = AgentEntropies(params, batch.states)]
              ELSE batch
  /\ ppo_events' = <<>>
  /\ loss_inputs' = <<>>
  /\ ppo_pc' = "loss"
  /\ UNCHANGED <<rollout, params, grad_norm, epoch>>
  /\ UNCHANGED <<gaeVars, bcVars, ailVars>>

\* Lines 40-43: the three losses read these field arrays of the batch.
PpoLoss ==
  /\ ppo_pc = "loss"
  /\ loss_inputs' =
       [log_prob_actions |-> batch.log_prob_actions,
        old_log_prob_actions |-> batch.old_log_prob_actions,
        advantages |-> batch.advantages,
        values |-> batch.values,
        rewards_to_go |-> batch.rewards_to_go,
        entropies |-> batch.entropies]
  /\ ppo_pc' = "zero_grad"
  /\ UNCHANGED <<batch, rollout, params, grad_norm, epoch, ppo_events>>
  /\ UNCHANGED <<gaeVars, bcVars, ailVars>>

\* Line 45
PpoZeroGrad ==
  /\ ppo_pc = "zero_grad"
  /\ grad_norm' = 0
  /\ ppo_events' = Append(ppo_events, "zero_grad")
  /\ ppo_pc' = "backward"
  /\ UNCHANGED <<batch, rollout, params, epoch, loss_inputs>>
  /\ UNCHANGED <<gaeVars, bcVars, ailVars>>

\* Line 46: backpropagation adds the gradients of the total loss.
PpoBackward ==
  /\ ppo_pc = "backward"
  /\ \E g \in 0..MaxGradNorm : grad_norm' = grad_norm + g
  /\ ppo_events' = Append(ppo_events, "backward")
  /\ ppo_pc' = "clip"
  /\ UNCHANGED <<batch, rollout, params, epoch, loss_inputs>>
  /\ UNCHANGED <<gaeVars, bcVars, ailVars>>

\* Line 47
PpoClipGradNorm ==
  /\ ppo_pc = "clip"
  /\ grad_norm' = ClipGradNorm(grad_norm, 1)
  /\ ppo_events' = Append(ppo_events, "clip")
  /\ ppo_pc' = "step"
  /\ UNCHANGED <<batch, rollout, params, epoch, loss_inputs>>
  /\ UNCHANGED <<gaeVars, bcVars, ailVars>>

\* Line 48, and the return to the caller, which calls again with the next
\* epoch index.
PpoOptimiserStep ==
  /\ ppo_pc = "step"
  /\ params' = OptimiserStep(params, grad_norm)
  /\ ppo_events' = Append(ppo_events, "step")
  /\ epoch' = epoch + 1
  /\ ppo_pc' = "idle"
  /\ UNCHANGED <<batch, rollout, grad_norm, loss_inputs>>
  /\ UNCHANGED <<gaeVars, bcVars, ailVars>>

NextPPO ==
  \/ PpoRecalculate
  \/ PpoLoss
  \/ PpoZeroGrad
  \/ PpoBackward
  \/ PpoClipGradNorm
  \/ PpoOptimiserStep

SpecPPO == InitPPO /\ [][NextPPO]_vars


PpoCallOrder == <<"zero_grad", "backward", "clip", "step">>

\* C8: every ppo_update call performs exactly one optimiser step; its events
\* are reset gradients, backpropagate, clip the gradient norm to 1, step, in
\* that order; the parameters change only in the step, from gradients that
\* are fully accumulated and clipped.
C8_OneClippedStepPerCall ==
  /\ [](/\ ppo_events = SubSeq(PpoCallOrder, 1, Len(ppo_events))
        /\ Len(params) = epoch
        /\ (ppo_pc = "idle" /\ epoch > 0) => ppo_events = PpoCallOrder)
  /\ [][params' # params =>
          /\ ppo_events = <<"zero_grad", "backward", "clip">>
          /\ grad_norm <= 1
          /\ params' = Append(params, grad_norm)
          /\ ppo_events' = PpoCallOrder]_vars

\* Two calls have returned, the second having applied a gradient of norm 1.
C8_Witness ==
  /\ ppo_pc = "idle"
  /\ epoch = 2
  /\ params[2] = 1

InCall == ppo_pc \in {"zero_grad", "backward", "clip", "step"}

\* C9: over the calls with epochs 0, 1, 2, ... the fields states, actions,
\* old_log_prob_actions, advantages and rewards_to_go never change; the call
\* with epoch 0 changes no field and computes its loss from the values
\* captured at collection time; every call with epoch > 0 replaces exactly
\* values, log_prob_actions and entropies by the agent's current outputs on
\* states before the loss is computed.
C9_BatchFrame ==
  /\ [][/\ batch'.states = batch.states
        /\ batch'.actions = batch.actions
        /\ batch'.old_log_prob_actions = batch.old_log_prob_actions
        /\ batch'.advantages = batch.advantages
        /\ batch'.rewards_to_go = batch.rewards_to_go]_vars
  /\ [][epoch = 0 => batch' = batch]_vars
  /\ []((InCall /\ epoch = 0) =>
          /\ loss_inputs.values = rollout.values
          /\ loss_inputs.log_prob_actions = rollout.log_prob_actions
          /\ loss_inputs.entropies = rollout.entropies
          /\ loss_inputs.old_log_prob_actions = rollout.old_log_prob_actions)
  /\ [][(epoch > 0 /\ ppo_pc = "idle" /\ ppo_pc' # "idle") =>
          batch' = [batch EXCEPT
                      !.values = AgentValues(params, batch.states),
                      !.log_prob_actions =
                         AgentLogProbActions(params, batch.states, batch.actions),
                      !.entropies = AgentEntropies(params, batch.states)]]_vars
  /\ [][batch' # batch => (ppo_pc = "idle" /\ epoch > 0)]_vars
  /\ []((InCall /\ epoch > 0) =>
          /\ loss_inputs.values = AgentValues(params, batch.states)
          /\ loss_inputs.log_prob_actions =
               AgentLogProbActions(params, batch.states, batch.actions)
          /\ loss_inputs.entropies = AgentEntropies(params, batch.states)
          /\ loss_inputs.old_log_prob_actions = rollout.old_log_prob_actions
          /\ loss_inputs.advantages = rollout.advantages
          /\ loss_inputs.rewards_to_go = rollout.rewards_to_go)

\* The second call is past its loss: the three recomputed fields differ from
\* the collected ones while old_log_prob_actions is still the collected one.
C9_Witness ==
  /\ InCall
  /\ epoch = 1
  /\ batch.values # rollout.values
  /\ batch.log_prob_actions # rollout.log_prob_actions
  /\ batch.entropies # rollout.entropies
  /\ batch.old_log_prob_actions = rollout.log_prob_actions


\* ================================================ datasets and data loaders
\* TransitionDataset.__len__
TransitionDatasetLen(size) == size - 1

AllOrders(n) ==
  {f \in [1..n -> 1..n] : \A i, j \in 1..n : f[i] = f[j] => i = j}

Rotations(n) == {[i \in 1..n |-> ((i + k) % n) + 1] : k \in 0..(n - 1)}

\* DataLoader(..., shuffle=True): the orders the sampler may produce; every
\* permutation up to MaxItems items, the rotations only for larger datasets.
ShuffleOrders(n) == IF n <= MaxItems THEN AllOrders(n) ELSE Rotations(n)

\* DataLoader(..., drop_last=True): a further mini-batch is produced only
\* while batch_size items are left.
HasNextBatchKeepLast(order, pos, batch_size) == Len(order) - pos >= 1

HasNextBatch(order, pos, batch_size) == Len(order) - pos >= batch_size

NextBatch(order, pos, batch_size) ==
  SubSeq(order, pos + 1, Min(pos + batch_size, Len(order)))

\* ============================================= behavioural_cloning_update
InitBC ==
  /\ bc_size \in 1..(MaxItems + 1)
  /\ bc_batch_size \in 1..MaxBatchSize
  /\ bc_order = <<>>
  /\ bc_pos = 0
  /\ bc_batch = <<>>
  /\ bc_log = <<>>
  /\ bc_pc = "start"
  /\ IdleGAE
  /\ IdlePPO
  /\ IdleAIL

\* Line 53 and the start of the iteration in line 55: the loader shuffles.
BcCreateDataLoader ==
  /\ bc_pc = "start"
  /\ bc_order' \in ShuffleOrders(TransitionDatasetLen(bc_size))
  /\ bc_pos' = 0
  /\ bc_pc' = "fetch"
  /\ UNCHANGED <<bc_size, bc_batch_size, bc_batch, bc_log>>
  /\ UNCHANGED <<gaeVars, ppoVars, ailVars>>

\* Lines 55-56: the loop takes the next mini-batch.
BcNextBatch ==
  /\ bc_pc = "fetch"
  /\ HasNextBatch(bc_order, bc_pos, bc_batch_size)
  /\ bc_batch' = NextBatch(bc_order, bc_pos, bc_batch_size)
  /\ bc_pos' = bc_pos + Len(bc_batch')
  /\ bc_pc' = "zero_grad"
  /\ UNCHANGED <<bc_size, bc_batch_size, bc_order, bc_log>>
  /\ UNCHANGED <<gaeVars, ppoVars, ailVars>>

\* Line 58
BcZeroGrad ==
  /\ bc_pc = "zero_grad"
  /\ bc_log' = Append(bc_log, [event |-> "zero_grad", batch |-> bc_batch])
  /\ bc_pc' = "backward"
  /\ UNCHANGED <<bc_size, bc_batch_size, bc_order, bc_pos, bc_batch>>
  /\ UNCHANGED <<gaeVars, ppoVars, ailVars>>

\* Lines 59-60
BcBackward ==
  /\ bc_pc = "backward"
  /\ bc_log' = Append(bc_log, [event |-> "backward", batch |-> bc_batch])
  /\ bc_pc' = "step"
  /\ UNCHANGED <<bc_size, bc_batch_size, bc_order, bc_pos, bc_batch>>
  /\ UNCHANGED <<gaeVars, ppoVars, ailVars>>

\* Line 61
BcOptimiserStep ==
  /\ bc_pc = "step"
  /\ bc_log' = Append(bc_log, [event |-> "step", batch |-> bc_batch])
  /\ bc_pc' = "fetch"
  /\ UNCHANGED <<bc_size, bc_batch_size, bc_order, bc_pos, bc_batch>>
  /\ UNCHANGED <<gaeVars, ppoVars, ailVars>>

\* The loader is exhausted: the call returns.
BcReturn ==
  /\ bc_pc = "fetch"
  /\ ~HasNextBatch(bc_order, bc_pos, bc_batch_size)
  /\ bc_pc' = "done"
  /\ UNCHANGED <<bc_size, bc_batch_size, bc_order, bc_pos, bc_batch, bc_log>>
  /\ UNCHANGED <<gaeVars, ppoVars, ailVars>>

NextBC ==
  \/ BcCreateDataLoader
  \/ BcNextBatch
  \/ BcZeroGrad
  \/ BcBackward
  \/ BcOptimiserStep
  \/ BcReturn

SpecBC == InitBC /\ [][NextBC]_vars

BcCallOrder == <<"zero_grad", "backward", "step">>

\* The mini-batches that received an optimiser step, in order.
BcStepped == SelectSeq(bc_log, LAMBDA e : e.event = "step")

Range(q) == {q[i] : i \in 1..Len(q)}

\* C10: one call over N transitions with batch size b performs exactly
\* floor(N / b) gradient steps, each on exactly b transitions and each as
\* reset gradients, backpropagate, step; no transition is in two mini-batches
\* and N mod b transitions are in none.
C10_OnePassDropLast ==
  LET N == TransitionDatasetLen(bc_size)
      b == bc_batch_size
  IN /\ \A i \in 1..Len(bc_log) :
          /\ bc_log[i].event = BcCallOrder[((i - 1) % 3) + 1]
          /\ bc_log[i].batch = bc_log[i - ((i - 1) % 3)].batch
          /\ Len(bc_log[i].batch) = b
          /\ Cardinality(Range(bc_log[i].batch)) = b
          /\ Range(bc_log[i].batch) \subseteq 1..N
     /\ \A i, j \in 1..Len(BcStepped) :
          i # j => Range(BcStepped[i].batch) \cap Range(BcStepped[j].batch) = {}
     /\ bc_pc = "done" =>
          /\ Len(BcStepped) = N \div b
          /\ Len(bc_log) = 3 * (N \div b)
          /\ Cardinality((1..N) \ UNION {Range(BcStepped[i].batch) :
                                            i \in 1..Len(BcStepped)}) = N % b

\* A finished call that left an incomplete batch unused.
C10_Witness ==
  /\ bc_pc = "done"
  /\ TransitionDatasetLen(bc_size) = 3
  /\ bc_batch_size = 2
  /\ Len(BcStepped) = 1


\* =========================================== adversarial_imitation_update
Algorithms == {"GAIL", "AIRL", "GMMIL"}

\* The dataset sizes and batch sizes explored: every small combination, and
\* stream lengths 10 and 7 with batch size 3.
AilSizes ==
  {<<e, p, b>> : e \in 1..(MaxItems + 1), p \in 1..(MaxItems + 1),
                 b \in 1..MaxBatchSize}
    \cup {<<11, 8, 3>>}

\* One argument of a discriminator call: a field of a mini-batch.
Arg(side, field, items) == [side |-> side, field |-> field, items |-> items]

\* Lines 74-75
GailExpertCall(et, pt) ==
  <<Arg("expert", "state", et), Arg("expert", "action", et)>>

GailPolicyCall(et, pt) ==
  <<Arg("policy", "state", pt), Arg("policy", "action", pt)>>

\* Lines 78-79: the agent's likelihood of a side's own state-action pairs.
ExpertDataPolicy(et, pt) == Arg("expert", "likelihood", et)

PolicyDataPolicy(et, pt) == Arg("policy", "likelihood", pt)

\* Lines 80-81
AirlExpertCall(et, pt) ==
  <<Arg("expert", "state", et), Arg("expert", "action", et),
    Arg("expert", "next_state", et), ExpertDataPolicy(et, pt)>>

AirlPolicyCall(et, pt) ==
  <<Arg("policy", "state", pt), Arg("expert", "action", et),
    Arg("policy", "next_state", pt), PolicyDataPolicy(et, pt)>>

InitAIL ==
  /\ algorithm \in Algorithms
  /\ \E c \in AilSizes :
       /\ expert_size = c[1]
       /\ policy_size = c[2]
       /\ ail_batch_size = c[3]
  /\ expert_order = <<>>
  /\ policy_order = <<>>
  /\ expert_pos = 0
  /\ policy_pos = 0
  /\ expert_transition = <<>>
  /\ policy_transition = <<>>
  /\ D_expert = Unbound
  /\ D_policy = Unbound
  /\ ail_pairs = <<>>
  /\ ail_events = <<>>
  /\ ail_pc = "start"
  /\ IdleGAE
  /\ IdlePPO
  /\ IdleBC

\* Lines 66-67 and the start of the iteration in line 70: both loaders shuffle.
AilCreateDataLoaders ==
  /\ ail_pc = "start"
  /\ expert_order' \in ShuffleOrders(TransitionDatasetLen(expert_size))
  /\ policy_order' \in ShuffleOrders(TransitionDatasetLen(policy_size))
  /\ ail_pc' = "fetch"
  /\ UNCHANGED <<algorithm, expert_size, policy_size, ail_batch_size,
                 expert_pos, policy_pos, expert_transition, policy_transition,
                 D_expert, D_policy, ail_pairs, ail_events>>
  /\ UNCHANGED <<gaeVars, ppoVars, bcVars>>

\* Lines 70-71: zip takes a mini-batch from the expert loader, then one from
\* the policy loader.
AilNextPair ==
  /\ ail_pc = "fetch"
  /\ HasNextBatch(expert_order, expert_pos, ail_batch_size)
  /\ HasNextBatch(policy_order, policy_pos, ail_batch_size)
  /\ expert_transition' = NextBatch(expert_order, expert_pos, ail_batch_size)
  /\ policy_transition' = NextBatch(policy_order, policy_pos, ail_batch_size)
  /\ expert_pos' = expert_pos + Len(expert_transition')
  /\ policy_pos' = policy_pos + Len(policy_transition')
  /\ ail_pairs' = Append(ail_pairs, <<expert_transition', policy_transition'>>)
  /\ ail_pc' = "score"
  /\ UNCHANGED <<algorithm, expert_size, policy_size, ail_batch_size,
                 expert_order, policy_order, D_expert, D_policy, ail_events>>
  /\ UNCHANGED <<gaeVars, ppoVars, bcVars>>

\* Line 70: zip stops at the first exhausted loader; the expert loader is
\* asked first, so its mini-batch is taken and discarded when only the policy
\* loader is exhausted.
AilReturn ==
  /\ ail_pc = "fetch"
  /\ \/ ~HasNextBatch(expert_order, expert_pos, ail_batch_size)
     \/ ~HasNextBatch(policy_order, policy_pos, ail_batch_size)
  /\ expert_pos' =
       IF HasNextBatch(expert_order, expert_pos, ail_batch_size)
       THEN expert_pos + Len(NextBatch(expert_order, expert_pos, ail_batch_size))
       ELSE expert_pos
  /\ ail_pc' = "done"
  /\ UNCHANGED <<algorithm, expert_size, policy_size, ail_batch_size,
                 expert_order, policy_order, policy_pos, expert_transition,
                 policy_transition, D_expert, D_policy, ail_pairs, ail_events>>
  /\ UNCHANGED <<gaeVars, ppoVars, bcVars>>

\* Lines 73-75
AilScoreGAIL ==
  /\ ail_pc = "score"
  /\ algorithm = "GAIL"
  /\ D_expert' = GailExpertCall(expert_transition, policy_transition)
  /\ D_policy' = GailPolicyCall(expert_transition, policy_transition)
  /\ ail_pc' = "zero_grad"
  /\ UNCHANGED <<algorithm, expert_size, policy_size, ail_batch_size,
                 expert_order, policy_order, expert_pos, policy_pos,
                 expert_transition, policy_transition, ail_pairs, ail_events>>
  /\ UNCHANGED <<gaeVars, ppoVars, bcVars>>

\* Lines 76-81
AilScoreAIRL ==
  /\ ail_pc = "score"
  /\ algorithm # "GAIL"
  /\ algorithm = "AIRL"
  /\ D_expert' = AirlExpertCall(expert_transition, policy_transition)
  /\ D_policy' = AirlPolicyCall(expert_transition, policy_transition)
  /\ ail_pc' = "zero_grad"
  /\ UNCHANGED <<algorithm, expert_size, policy_size, ail_batch_size,
                 expert_order, policy_order, expert_pos, policy_pos,
                 expert_transition, policy_transition, ail_pairs, ail_events>>
  /\ UNCHANGED <<gaeVars, ppoVars, bcVars>>

\* Lines 73 and 76 both fail: neither branch binds D_expert and D_policy.
AilNoScore ==
  /\ ail_pc = "score"
  /\ algorithm # "GAIL"
  /\ algorithm # "AIRL"
  /\ ail_pc' = "zero_grad"
  /\ UNCHANGED <<algorithm, expert_size, policy_size, ail_batch_size,
                 expert_order, policy_order, expert_pos, policy_pos,
                 expert_transition, policy_transition, D_expert, D_policy,
                 ail_pairs, ail_events>>
  /\ UNCHANGED <<gaeVars, ppoVars, bcVars>>

\* Line 84
AilZeroGrad ==
  /\ ail_pc = "zero_grad"
  /\ ail_events' = Append(ail_events, "zero_grad")
  /\ ail_pc' = "loss"
  /\ UNCHANGED <<algorithm, expert_size, policy_size, ail_batch_size,
                 expert_order, policy_order, expert_pos, policy_pos,
                 expert_transition, policy_transition, D_expert, D_policy,
                 ail_pairs>>
  /\ UNCHANGED <<gaeVars, ppoVars, bcVars>>

\* Lines 85-87: the two losses and their backpropagation.
AilBackward ==
  /\ ail_pc = "loss"
  /\ D_expert # Unbound
  /\ D_policy # Unbound
  /\ ail_events' = Append(ail_events, "backward")
  /\ ail_pc' = "step"
  /\ UNCHANGED <<algorithm, expert_size, policy_size, ail_batch_size,
                 expert_order, policy_order, expert_pos, policy_pos,
                 expert_transition, policy_transition, D_expert, D_policy,
                 ail_pairs>>
  /\ UNCHANGED <<gaeVars, ppoVars, bcVars>>

\* Line 85 reads D_expert, which is unbound: the call ends in a NameError.
AilUnboundError ==
  /\ ail_pc = "loss"
  /\ D_expert = Unbound
  /\ ail_pc' = "error"
  /\ UNCHANGED <<algorithm, expert_size, policy_size, ail_batch_size,
                 expert_order, policy_order, expert_pos, policy_pos,
                 expert_transition, policy_transition, D_expert, D_policy,
                 ail_pairs, ail_events>>
  /\ UNCHANGED <<gaeVars, ppoVars, bcVars>>

\* Line 88
AilOptimiserStep ==
  /\ ail_pc = "step"
  /\ ail_events' = Append(ail_events, "step")
  /\ ail_pc' = "fetch"
  /\ UNCHANGED <<algorithm, expert_size, policy_size, ail_batch_size,
                 expert_order, policy_order, expert_pos, policy_pos,
                 expert_transition, policy_transition, D_expert, D_policy,
                 ail_pairs>>
  /\ UNCHANGED <<gaeVars, ppoVars, bcVars>>

NextAIL ==
  \/ AilCreateDataLoaders
  \/ AilNextPair
  \/ AilReturn
  \/ AilScoreGAIL
  \/ AilScoreAIRL
  \/ AilNoScore
  \/ AilZeroGrad
  \/ AilBackward
  \/ AilUnboundError
  \/ AilOptimiserStep

SpecAIL == InitAIL /\ [][NextAIL]_vars

AilSteps == Len(SelectSeq(ail_events, LAMBDA e : e = "step"))

AilEnded == ail_pc \in {"done", "error"}


\* C5: a call whose algorithm selector is neither 'GAIL' nor 'AIRL' never
\* completes normally and never performs a discriminator optimiser step.
C5_InvalidSelectorFailsFast ==
  algorithm \notin {"GAIL", "AIRL"} =>
    /\ ail_pc # "done"
    /\ AilSteps = 0

\* C6: in the AIRL variant every argument of the policy-side discriminator
\* call is a field of the policy mini-batch of the current pair.
C6_AirlPolicyScoreOwnFields ==
  (algorithm = "AIRL" /\ D_policy # Unbound) =>
    \A i \in 1..Len(D_policy) :
      /\ D_policy[i].side = "policy"
      /\ D_policy[i].items = policy_transition

AilCallOrder == <<"zero_grad", "backward", "step">>

\* The number of paired mini-batches min(floor(E / b), floor(P / b)).
PairedBatches ==
  Min(TransitionDatasetLen(expert_size) \div ail_batch_size,
      TransitionDatasetLen(policy_size) \div ail_batch_size)

AilPairsWellFormed ==
  /\ \A i \in 1..Len(ail_pairs) :
       /\ Len(ail_pairs[i][1]) = ail_batch_size
       /\ Len(ail_pairs[i][2]) = ail_batch_size
       /\ Cardinality(Range(ail_pairs[i][1])) = ail_batch_size
       /\ Cardinality(Range(ail_pairs[i][2])) = ail_batch_size
  /\ \A i \in 1..Len(ail_events) :
       ail_events[i] = AilCallOrder[((i - 1) % 3) + 1]

AilProcessedAllPairs ==
  /\ Len(ail_pairs) = PairedBatches
  /\ AilSteps = PairedBatches
  /\ Len(ail_events) = 3 * PairedBatches
  /\ (TransitionDatasetLen(expert_size) = 10
        /\ TransitionDatasetLen(policy_size) = 7
        /\ ail_batch_size = 3) => AilSteps = 2

\* C7 as stated: every call, whatever its selector, processes exactly
\* min(floor(E / b), floor(P / b)) paired mini-batches of b items a side, each
\* with one discriminator optimiser step.
C7_PairedBatchesAnySelector ==
  AilPairsWellFormed /\ (AilEnded => AilProcessedAllPairs)

\* C7 amended: every call with selector 'GAIL' or 'AIRL' processes exactly
\* min(floor(E / b), floor(P / b)) paired mini-batches of b items a side, each
\* with one discriminator optimiser step; 2 for E = 10, P = 7, b = 3.
C7_PairedBatches ==
  algorithm \in {"GAIL", "AIRL"} =>
    AilPairsWellFormed /\ (AilEnded => AilProcessedAllPairs)

\* The call with stream lengths 10 and 7 and batch size 3 has returned.
C7_Witness ==
  /\ ail_pc = "done"
  /\ algorithm = "GAIL"
  /\ TransitionDatasetLen(expert_size) = 10
  /\ TransitionDatasetLen(policy_size) = 7
  /\ ail_batch_size = 3
  /\ Len(ail_pairs) = 2

====
